---- MODULE Spec2Model ----
(***************************************************************************)
(* Model of the constrained-scheduling genetic solver                      *)
(* (src/src/solver/mod.rs, src/src/lib.rs).                                *)
(*                                                                         *)
(* Timestamps are minutes since midnight (integers).  Scores are f64 in    *)
(* the program and IEEE-754 binary64 values in the model: a sign-free      *)
(* record of exponent and 53-bit significand, added with round to nearest, *)
(* ties to even, so that the order of a summation shows in its result.     *)
(* Option<T> is a sequence of length 0 (None) or 1 (Some).                 *)
(***************************************************************************)
EXTENDS Integers, Sequences, FiniteSets, TLC

VARIABLES js_drivers, js_vehicles, js_orders, error,
          drivers, vehicles, orders,
          population, new_population, child,
          generation, best_score, generations_without_improvement,
          progress, pc, reason, result

vars == <<js_drivers, js_vehicles, js_orders, error,
          drivers, vehicles, orders, population, new_population, child,
          generation, best_score, generations_without_improvement,
          progress, pc, reason, result>>

None == <<>>
Some(x) == <<x>>

-----------------------------------------------------------------------------
(* Parameters of get_schedule_recommendation.  The generation cap, the      *)
(* population size and the stagnation cap are scaled down.                  *)
generations == 3
population_size == 3
max_generations_without_improvement == 2
mandatory_break == 30
tournament_size == 3
MaxRemoveCount == 3

\* variant: the elite share is rounded down
elite_count_floor == population_size \div 10

\* line 113: ceil(population_size * 0.1)
elite_count == (population_size + 9) \div 10

-----------------------------------------------------------------------------
(* Feasibility engine                                                       *)

\* variant: either comparison alone counts as an overlap
orders_overlap_either(order1, order2) ==
    order1.start_time < order2.end_time \/ order2.start_time < order1.end_time

\* variant: the second order must start strictly after the first
orders_overlap_strict_start(order1, order2) ==
    order1.start_time < order2.start_time /\ order2.start_time < order1.end_time

orders_overlap(order1, order2) ==
    order1.start_time < order2.end_time /\ order2.start_time < order1.end_time

\* variant: only the case "existing interval first" is examined
insufficient_break_one_sided(order1, order2, mb) ==
    IF order1.end_time <= order2.start_time
    THEN order2.start_time - order1.end_time < mb
    ELSE FALSE

insufficient_break(order1, order2, mb) ==
    IF order1.end_time <= order2.start_time
    THEN order2.start_time - order1.end_time < mb
    ELSE IF order2.end_time <= order1.start_time
         THEN order1.start_time - order2.end_time < mb
         ELSE FALSE

is_driver_on_break(driver, time) ==
    /\ driver.breaks # None
    /\ \E i \in 1..Len(driver.breaks[1]) :
          driver.breaks[1][i].from <= time /\ time < driver.breaks[1][i].to

existing_order(iv) ==
    [id |-> "", start_time |-> iv[1], end_time |-> iv[2], priority |-> None,
     tags |-> None, weight |-> 0, volume |-> None]

\* variant: the break is tested against the end of the order
can_assign_driver_break_at_end(order, driver, driver_schedule, mb) ==
    /\ ~is_driver_on_break(driver, order.end_time)
    /\ \A i \in 1..Len(driver_schedule) :
          /\ ~orders_overlap(existing_order(driver_schedule[i]), order)
          /\ ~insufficient_break(existing_order(driver_schedule[i]), order, mb)

can_assign_driver(order, driver, driver_schedule, mb) ==
    /\ ~is_driver_on_break(driver, order.start_time)
    /\ \A i \in 1..Len(driver_schedule) :
          /\ ~orders_overlap(existing_order(driver_schedule[i]), order)
          /\ ~insufficient_break(existing_order(driver_schedule[i]), order, mb)

\* variant: the weight limit is not tested
can_assign_vehicle_no_weight(order, vehicle, vehicle_schedule, mb) ==
    /\ \A i \in 1..Len(vehicle_schedule) :
          /\ ~orders_overlap(existing_order(vehicle_schedule[i]), order)
          /\ ~insufficient_break(existing_order(vehicle_schedule[i]), order, mb)
    /\ order.volume # None =>
          (vehicle.max_volume # None /\ ~(order.volume[1] > vehicle.max_volume[1]))
    /\ order.tags # None =>
          (vehicle.tags # None /\ order.tags[1] \subseteq vehicle.tags[1])

\* variant: a vehicle without tags accepts every order
can_assign_vehicle_untagged_ok(order, vehicle, vehicle_schedule, mb) ==
    /\ \A i \in 1..Len(vehicle_schedule) :
          /\ ~orders_overlap(existing_order(vehicle_schedule[i]), order)
          /\ ~insufficient_break(existing_order(vehicle_schedule[i]), order, mb)
    /\ ~(order.weight > vehicle.max_weight)
    /\ order.volume # None =>
          (vehicle.max_volume # None /\ ~(order.volume[1] > vehicle.max_volume[1]))
    /\ (order.tags # None /\ vehicle.tags # None) => order.tags[1] \subseteq vehicle.tags[1]

can_assign_vehicle(order, vehicle, vehicle_schedule, mb) ==
    /\ \A i \in 1..Len(vehicle_schedule) :
          /\ ~orders_overlap(existing_order(vehicle_schedule[i]), order)
          /\ ~insufficient_break(existing_order(vehicle_schedule[i]), order, mb)
    /\ ~(order.weight > vehicle.max_weight)
    /\ order.volume # None =>
          (vehicle.max_volume # None /\ ~(order.volume[1] > vehicle.max_volume[1]))
    /\ order.tags # None =>
          (vehicle.tags # None /\ order.tags[1] \subseteq vehicle.tags[1])

can_assign(order, driver, vehicle, driver_schedule, vehicle_schedule, mb) ==
    /\ can_assign_driver(order, driver, driver_schedule, mb)
    /\ can_assign_vehicle(order, vehicle, vehicle_schedule, mb)

-----------------------------------------------------------------------------
(* Candidate state                                                          *)

DriverIds == {drivers[i].id : i \in 1..Len(drivers)}
VehicleIds == {vehicles[i].id : i \in 1..Len(vehicles)}

\* iter().find(|x| x.id == id): the first element carrying the identifier
FindById(xs, id) ==
    xs[CHOOSE i \in 1..Len(xs) :
          xs[i].id = id /\ \A j \in 1..(i - 1) : xs[j].id # id]

\* HashMap collect: a later order with the same identifier overwrites
order_priority_map ==
    [id \in {orders[i].id : i \in 1..Len(orders)} |->
        LET last == CHOOSE i \in 1..Len(orders) :
                       orders[i].id = id /\ \A j \in (i + 1)..Len(orders) : orders[j].id # id
        IN  IF orders[last].priority = None THEN 1 ELSE orders[last].priority[1]]

PriorityOf(priority_map, id) ==
    IF id \in DOMAIN priority_map THEN priority_map[id] ELSE 1

\* f64: a non-negative binary64 value is hi * 2^26 + lo (53 bits, top bit set)
\* times 2^(e - 52); 0.0 has all fields 0.  Priorities stay below 2^27 and
\* exponents less than 27 apart.
RECURSIVE BitLength(_)
BitLength(n) == IF n = 0 THEN 0 ELSE 1 + BitLength(n \div 2)

f64_zero == [e |-> 0, hi |-> 0, lo |-> 0]

\* `as f64` on a u32
f64_from_u32(n) ==
    IF n = 0 THEN f64_zero
    ELSE [e |-> BitLength(n) - 1, hi |-> n * 2^(27 - BitLength(n)), lo |-> 0]

f64_increment(x) ==
    IF x.lo + 1 < 2^26 THEN [x EXCEPT !.lo = @ + 1]
    ELSE IF x.hi + 1 < 2^27 THEN [x EXCEPT !.hi = @ + 1, !.lo = 0]
    ELSE [e |-> x.e + 1, hi |-> 2^26, lo |-> 0]

\* round to nearest, ties to even, on the `width` bits `ext` cut off below x
f64_round(x, ext, width) ==
    LET half == 2^(width - 1)
    IN  IF width = 0 \/ ext < half \/ (ext = half /\ x.lo % 2 = 0) THEN x
        ELSE f64_increment(x)

f64_plus(x, y) ==
    IF x = f64_zero THEN y
    ELSE IF y = f64_zero THEN x
    ELSE LET big   == IF x.e >= y.e THEN x ELSE y
             small == IF x.e >= y.e THEN y ELSE x
             d     == big.e - small.e
             s_hi  == small.hi \div 2^d
             s_lo  == (small.hi % 2^d) * 2^(26 - d) + small.lo \div 2^d
             s_ext == small.lo % 2^d
             lo    == big.lo + s_lo
             hi    == big.hi + s_hi + lo \div 2^26
         IN  IF hi < 2^27
             THEN f64_round([e |-> big.e, hi |-> hi, lo |-> lo % 2^26], s_ext, d)
             ELSE f64_round([e |-> big.e + 1, hi |-> hi \div 2,
                             lo |-> (hi % 2) * 2^25 + (lo % 2^26) \div 2],
                            (lo % 2) * 2^d + s_ext, d + 1)

\* +: each operand is evaluated once
f64_add(a, b) == CHOOSE sum \in {f64_plus(x, y) : x \in {a}, y \in {b}} : TRUE

f64_less(x, y) ==
    IF x = f64_zero THEN y # f64_zero
    ELSE IF y = f64_zero THEN FALSE
    ELSE \/ x.e < y.e
         \/ x.e = y.e /\ x.hi < y.hi
         \/ x.e = y.e /\ x.hi = y.hi /\ x.lo < y.lo

\* <: each operand is evaluated once
f64_lt(a, b) == \E x \in {a}, y \in {b} : f64_less(x, y)

\* const PREFERENCE_BONUS: f64 = 0.1, bits 0x3FB999999999999A
PREFERENCE_BONUS == [e |-> -4, hi |-> 107374182, lo |-> 26843546]

SolverState_new ==
    [driver_schedules |-> [d \in DriverIds |-> <<>>],
     vehicle_schedules |-> [v \in VehicleIds |-> <<>>],
     assignments |-> <<>>,
     score |-> f64_zero]

AssignmentWeight(order_id, driver, vehicle_id, priority_map) ==
    LET weight == f64_from_u32(PriorityOf(priority_map, order_id))
    IN  IF driver.preference # None /\ vehicle_id = driver.preference[1]
        THEN f64_add(weight, PREFERENCE_BONUS) ELSE weight

\* variant: the assignment records the driver's identifier as the order's
assign_order_wrong_id(state, order, driver, vehicle, priority_map) ==
    [driver_schedules |->
        [state.driver_schedules EXCEPT ![driver.id] =
            Append(@, <<order.start_time, order.end_time>>)],
     vehicle_schedules |->
        [state.vehicle_schedules EXCEPT ![vehicle.id] =
            Append(@, <<order.start_time, order.end_time>>)],
     assignments |->
        Append(state.assignments,
               [order_id |-> driver.id, driver_id |-> driver.id, vehicle_id |-> vehicle.id]),
     score |-> f64_add(state.score,
                       AssignmentWeight(order.id, driver, vehicle.id, priority_map))]

assign_order(state, order, driver, vehicle, priority_map) ==
    [driver_schedules |->
        [state.driver_schedules EXCEPT ![driver.id] =
            Append(@, <<order.start_time, order.end_time>>)],
     vehicle_schedules |->
        [state.vehicle_schedules EXCEPT ![vehicle.id] =
            Append(@, <<order.start_time, order.end_time>>)],
     assignments |->
        Append(state.assignments,
               [order_id |-> order.id, driver_id |-> driver.id, vehicle_id |-> vehicle.id]),
     score |-> f64_add(state.score,
                       AssignmentWeight(order.id, driver, vehicle.id, priority_map))]

RECURSIVE ScoreFrom(_, _, _, _)
ScoreFrom(score, assignments, i, priority_map) ==
    IF i > Len(assignments) THEN score
    ELSE ScoreFrom(f64_add(score,
                           AssignmentWeight(assignments[i].order_id,
                                            FindById(drivers, assignments[i].driver_id),
                                            assignments[i].vehicle_id, priority_map)),
                   assignments, i + 1, priority_map)

calculate_score(state, priority_map) ==
    ScoreFrom(f64_zero, state.assignments, 1, priority_map)

-----------------------------------------------------------------------------
(* Randomised placement of one order: enumerate the feasible               *)
(* (driver, vehicle) pairs, choose one, commit it.  The operators return   *)
(* the set of states the random choices can produce.                        *)

possible_assignments(state, order) ==
    {dv \in (1..Len(drivers)) \X (1..Len(vehicles)) :
        /\ can_assign_driver(order, drivers[dv[1]],
                             state.driver_schedules[drivers[dv[1]].id], mandatory_break)
        /\ can_assign_vehicle(order, vehicles[dv[2]],
                              state.vehicle_schedules[vehicles[dv[2]].id], mandatory_break)
        /\ can_assign(order, drivers[dv[1]], vehicles[dv[2]],
                      state.driver_schedules[drivers[dv[1]].id],
                      state.vehicle_schedules[vehicles[dv[2]].id], mandatory_break)}

TryAssign(state, order, priority_map) ==
    LET pa == possible_assignments(state, order)
    IN  IF pa = {} THEN {state}
        ELSE {assign_order(state, order, drivers[dv[1]], vehicles[dv[2]], priority_map) :
                 dv \in pa}

IsAssigned(state, order) ==
    \E i \in 1..Len(state.assignments) : state.assignments[i].order_id = order.id

\* the loop of initialize_random_state over the shuffled orders
RECURSIVE InitPass(_, _, _, _)
InitPass(states, os, i, priority_map) ==
    IF i > Len(os) THEN states
    ELSE InitPass(UNION {TryAssign(s, os[i], priority_map) : s \in states},
                  os, i + 1, priority_map)

\* variant: an order already in the assignment list is tried again
RepairStepNoSkip(state, order, priority_map) == TryAssign(state, order, priority_map)

\* one iteration of the "assign unassigned orders" loop of crossover and of mutate
RepairStep(state, order, priority_map) ==
    IF IsAssigned(state, order) THEN {state}
    ELSE TryAssign(state, order, priority_map)

RECURSIVE RepairPass(_, _, _, _)
RepairPass(states, os, i, priority_map) ==
    IF i > Len(os) THEN states
    ELSE RepairPass(UNION {RepairStep(s, os[i], priority_map) : s \in states},
                    os, i + 1, priority_map)

WithScore(state, priority_map) ==
    [state EXCEPT !.score = calculate_score(state, priority_map)]

Shuffles(os) ==
    {[i \in 1..Len(os) |-> os[p[i]]] :
        p \in {f \in [1..Len(os) -> 1..Len(os)] :
                  \A i, j \in 1..Len(os) : f[i] = f[j] => i = j}}

initialize_random_state(priority_map) ==
    {WithScore(s, priority_map) :
        s \in UNION {InitPass({SolverState_new}, sh, 1, priority_map) :
                        sh \in Shuffles(orders)}}

-----------------------------------------------------------------------------
(* Genetic operators                                                        *)

RECURSIVE TournamentFrom(_, _, _, _)
TournamentFrom(pop, picks, k, best) ==
    IF k > tournament_size THEN best
    ELSE TournamentFrom(pop, picks, k + 1,
           IF f64_lt(pop[best].score, pop[picks[k]].score) THEN picks[k] ELSE best)

select_parent(pop) ==
    {pop[TournamentFrom(pop, picks, 2, picks[1])] :
        picks \in [1..tournament_size -> 1..Len(pop)]}

FindAssignment(state, order_id) ==
    LET hits == {i \in 1..Len(state.assignments) : state.assignments[i].order_id = order_id}
    IN  IF hits = {} THEN None
        ELSE Some(state.assignments[CHOOSE i \in hits : \A j \in hits : i <= j])

\* first loop of crossover: coins[i] chooses parent1 for the i-th order
RECURSIVE InheritFrom(_, _, _, _, _, _)
InheritFrom(c, parent1, parent2, coins, i, priority_map) ==
    IF i > Len(orders) THEN c
    ELSE LET order == orders[i]
             assignment == IF coins[i] THEN FindAssignment(parent1, order.id)
                                       ELSE FindAssignment(parent2, order.id)
             next ==
               IF assignment = None THEN c
               ELSE LET driver == FindById(drivers, assignment[1].driver_id)
                        vehicle == FindById(vehicles, assignment[1].vehicle_id)
                    IN  IF can_assign(order, driver, vehicle,
                                      c.driver_schedules[driver.id],
                                      c.vehicle_schedules[vehicle.id], mandatory_break)
                        THEN assign_order(c, order, driver, vehicle, priority_map)
                        ELSE c
         IN  InheritFrom(next, parent1, parent2, coins, i + 1, priority_map)

\* variant: the first order of the input is never inherited
crossover_inherit_from_second(parent1, parent2, coins, priority_map) ==
    InheritFrom(SolverState_new, parent1, parent2, coins, 2, priority_map)

crossover_inherit(parent1, parent2, coins, priority_map) ==
    InheritFrom(SolverState_new, parent1, parent2, coins, 1, priority_map)

crossover_repair(c, priority_map) ==
    {WithScore(s, priority_map) : s \in RepairPass({c}, orders, 1, priority_map)}

RemoveAt(seq, idx) ==
    [i \in 1..(Len(seq) - 1) |-> IF i < idx THEN seq[i] ELSE seq[i + 1]]

RetainNotWindow(schedule, order) ==
    SelectSeq(schedule,
              LAMBDA iv : ~(iv[1] = order.start_time /\ iv[2] = order.end_time))

\* one iteration of the removal loop of mutate for the drawn index
release(state, idx) ==
    LET assignment == state.assignments[idx]
        order == FindById(orders, assignment.order_id)
    IN  [driver_schedules |->
            [state.driver_schedules EXCEPT ![assignment.driver_id] =
                RetainNotWindow(@, order)],
         vehicle_schedules |->
            [state.vehicle_schedules EXCEPT ![assignment.vehicle_id] =
                RetainNotWindow(@, order)],
         assignments |-> RemoveAt(state.assignments, idx),
         score |-> state.score]

RECURSIVE mutate_release(_, _)
mutate_release(states, remove_count) ==
    IF remove_count = 0 THEN states
    ELSE mutate_release(
           UNION {IF s.assignments = <<>> THEN {s}
                  ELSE {release(s, idx) : idx \in 1..Len(s.assignments)} : s \in states},
           remove_count - 1)

\* variant: the released orders are not placed again
mutate_repair_none(c, priority_map) == {WithScore(c, priority_map)}

mutate_repair(c, priority_map) ==
    {WithScore(s, priority_map) : s \in RepairPass({c}, orders, 1, priority_map)}

-----------------------------------------------------------------------------
(* Evolution driver                                                         *)

\* population.sort_by(|a, b| b.score.partial_cmp(&a.score)): stable, descending
RECURSIVE InsertByScore(_, _)
InsertByScore(sorted, c) ==
    IF sorted = <<>> THEN <<c>>
    ELSE IF ~f64_lt(sorted[Len(sorted)].score, c.score) THEN Append(sorted, c)
         ELSE Append(InsertByScore(SubSeq(sorted, 1, Len(sorted) - 1), c),
                     sorted[Len(sorted)])

RECURSIVE SortFrom(_, _, _)
SortFrom(pop, i, acc) ==
    IF i > Len(pop) THEN acc ELSE SortFrom(pop, i + 1, InsertByScore(acc, pop[i]))

sort_by_score(pop) == SortFrom(pop, 1, <<>>)

-----------------------------------------------------------------------------
(* Inputs the decoder can hand to the solver                                *)

Driver(id, breaks, preference) ==
    [id |-> id, breaks |-> breaks, preference |-> preference]

Vehicle(id, tags, max_weight, max_volume) ==
    [id |-> id, tags |-> tags, max_weight |-> max_weight, max_volume |-> max_volume]

Order(id, start_time, end_time, priority, tags, weight, volume) ==
    [id |-> id, start_time |-> start_time, end_time |-> end_time,
     priority |-> priority, tags |-> tags, weight |-> weight, volume |-> volume]

\* driver d1 rests 10:00-10:30 and prefers v1; the orders end 09:45 and start 10:20
BreakInput ==
    [drivers |-> <<Driver("d1", Some(<<[from |-> 600, to |-> 630]>>), Some("v1")),
                   Driver("d2", None, None)>>,
     vehicles |-> <<Vehicle("v1", None, 100, None)>>,
     orders |-> <<Order("o1", 540, 585, None, None, 10, None),
                  Order("o2", 620, 650, None, None, 10, None)>>]

\* weight, volume and tag limits; each rejects one (order, vehicle) pair alone
CapacityInput ==
    [drivers |-> <<Driver("d1", None, Some("v2"))>>,
     vehicles |-> <<Vehicle("v1", Some({"frozen"}), 100, Some(10)),
                    Vehicle("v2", None, 20, None)>>,
     orders |-> <<Order("heavy", 480, 540, Some(2), None, 50, None),
                  Order("frozen", 600, 660, None, Some({"frozen"}), 10, Some(5)),
                  Order("bulky", 720, 780, None, None, 10, Some(20))>>]

\* an order requires a tag and the only vehicle has no tags
TagInput ==
    [drivers |-> <<Driver("d1", None, None)>>,
     vehicles |-> <<Vehicle("v1", None, 100, None)>>,
     orders |-> <<Order("frozen", 480, 540, None, Some({"frozen"}), 10, None),
                  Order("plain", 480, 540, Some(0), None, 10, None)>>]

\* two orders with the same inverted window (end before start)
InvertedInput ==
    [drivers |-> <<Driver("d1", None, None)>>,
     vehicles |-> <<Vehicle("v1", None, 100, None)>>,
     orders |-> <<Order("x1", 700, 600, None, None, 10, None),
                  Order("x2", 700, 600, None, None, 10, None)>>]

\* two orders carrying the same identifier
DuplicateInput ==
    [drivers |-> <<Driver("d1", None, None)>>,
     vehicles |-> <<Vehicle("v1", None, 100, None)>>,
     orders |-> <<Order("o1", 480, 540, None, None, 10, None),
                  Order("o1", 600, 660, Some(3), None, 10, None)>>]

\* b is less than a break away from a and from c: {a, c} or {b} alone
ChainInput ==
    [drivers |-> <<Driver("d1", None, None)>>,
     vehicles |-> <<Vehicle("v1", None, 100, None)>>,
     orders |-> <<Order("a", 480, 540, None, None, 10, None),
                  Order("b", 550, 610, None, None, 10, None),
                  Order("c", 620, 680, None, None, 10, None)>>]

\* no driver at all
ZeroDriverInput ==
    [drivers |-> <<>>,
     vehicles |-> <<Vehicle("v1", None, 100, None)>>,
     orders |-> <<Order("o1", 480, 540, None, None, 10, None)>>]

\* an order with a negative weight
NegativeWeightInput ==
    [drivers |-> <<Driver("d1", None, None)>>,
     vehicles |-> <<Vehicle("v1", None, 100, None)>>,
     orders |-> <<Order("n1", 480, 540, None, None, -5, None)>>]

\* two orders an hour apart
ScenarioAInput ==
    [drivers |-> <<Driver("d1", None, None)>>,
     vehicles |-> <<Vehicle("v1", None, 100, None)>>,
     orders |-> <<Order("o1", 480, 540, None, None, 10, None),
                  Order("o2", 600, 660, None, None, 10, None)>>]

\* two orders that do not overlap and lie ten minutes apart
ScenarioANearInput ==
    [drivers |-> <<Driver("d1", None, None)>>,
     vehicles |-> <<Vehicle("v1", None, 100, None)>>,
     orders |-> <<Order("o1", 480, 540, None, None, 10, None),
                  Order("o2", 550, 610, None, None, 10, None)>>]

\* two orders with the same window
ScenarioBInput ==
    [drivers |-> <<Driver("d1", None, None)>>,
     vehicles |-> <<Vehicle("v1", None, 100, None)>>,
     orders |-> <<Order("o1", 480, 540, None, None, 10, None),
                  Order("o2", 480, 540, None, None, 10, None)>>]

\* three orders two hours apart on the driver's preferred vehicle, weights
\* 1.1, 0.1 and 0.1: (1.1 + 0.1) + 0.1 and (0.1 + 0.1) + 1.1 differ as f64
RoundingInput ==
    [drivers |-> <<Driver("d1", None, Some("v1"))>>,
     vehicles |-> <<Vehicle("v1", None, 100, None)>>,
     orders |-> <<Order("c", 480, 540, None, None, 10, None),
                  Order("a", 660, 720, Some(0), None, 10, None),
                  Order("b", 840, 900, Some(0), None, 10, None)>>]

Inputs ==
    {BreakInput, CapacityInput, TagInput, InvertedInput, DuplicateInput, ChainInput,
     ZeroDriverInput, NegativeWeightInput, ScenarioAInput, ScenarioANearInput,
     ScenarioBInput}

\* two drivers share the identifier d1; the first rests through the order
SharedIdInput ==
    [drivers |-> <<Driver("d1", Some(<<[from |-> 480, to |-> 540]>>), None),
                   Driver("d1", None, None)>>,
     vehicles |-> <<Vehicle("v1", None, 100, None)>>,
     orders |-> <<Order("o1", 480, 540, None, None, 10, None)>>]

\* two orders share the identifier o1; the second is too heavy for v2, and
\* the driver's preference for v1 lets a later generation improve
SharedOrderIdInput ==
    [drivers |-> <<Driver("d1", None, Some("v1"))>>,
     vehicles |-> <<Vehicle("v1", None, 100, None), Vehicle("v2", None, 20, None)>>,
     orders |-> <<Order("o1", 480, 540, None, None, 10, None),
                  Order("o1", 660, 720, Some(3), None, 50, None)>>]

CrossoverInputs == Inputs \cup {RoundingInput, SharedIdInput, SharedOrderIdInput}

-----------------------------------------------------------------------------
(* get_schedule_recommendation                                              *)

\* a JavaScript value: whether from_value accepts it, and what it decodes to
JsValue(decodes, value) == [decodes |-> decodes, value |-> value]

InitFrom(inputs) ==
    /\ \E input \in inputs, d, v, o \in BOOLEAN :
          /\ js_drivers = JsValue(d, input.drivers)
          /\ js_vehicles = JsValue(v, input.vehicles)
          /\ js_orders = JsValue(o, input.orders)
    /\ error = None
    /\ drivers = <<>>
    /\ vehicles = <<>>
    /\ orders = <<>>
    /\ population = <<>>
    /\ new_population = <<>>
    /\ child = SolverState_new
    /\ generation = 0
    /\ best_score = f64_zero
    /\ generations_without_improvement = 0
    /\ progress = <<>>
    /\ pc = "decode"
    /\ reason = "running"
    /\ result = <<>>

Init == InitFrom(Inputs)

CrossoverInit == InitFrom(CrossoverInputs)

\* variant: the inputs are decoded last to first
first_failure_reversed(d, v, o) ==
    IF ~o.decodes THEN Some("orders")
    ELSE IF ~v.decodes THEN Some("vehicles")
    ELSE IF ~d.decodes THEN Some("drivers")
    ELSE None

\* lines 38-43: the first from_value that fails returns its error
first_failure(d, v, o) ==
    IF ~d.decodes THEN Some("drivers")
    ELSE IF ~v.decodes THEN Some("vehicles")
    ELSE IF ~o.decodes THEN Some("orders")
    ELSE None

\* lines 37-43
Decode ==
    /\ pc = "decode"
    /\ error' = first_failure(js_drivers, js_vehicles, js_orders)
    /\ IF error' = None
       THEN /\ drivers' = js_drivers.value
            /\ vehicles' = js_vehicles.value
            /\ orders' = js_orders.value
            /\ child' = [driver_schedules |->
                            [id \in {drivers'[i].id : i \in 1..Len(drivers')} |-> <<>>],
                         vehicle_schedules |->
                            [id \in {vehicles'[i].id : i \in 1..Len(vehicles')} |-> <<>>],
                         assignments |-> <<>>,
                         score |-> f64_zero]
            /\ pc' = "init"
       ELSE /\ pc' = "failed"
            /\ UNCHANGED <<drivers, vehicles, orders, child>>
    /\ UNCHANGED <<js_drivers, js_vehicles, js_orders, population, new_population,
                   generation, best_score, generations_without_improvement, progress,
                   reason, result>>

\* lines 59-70: one iteration of the loop that fills the initial population
InitializePopulation ==
    /\ pc = "init"
    /\ Len(population) < population_size
    /\ \E state \in initialize_random_state(order_priority_map) :
          population' = Append(population, state)
    /\ UNCHANGED <<js_drivers, js_vehicles, js_orders, error, drivers, vehicles, orders,
                   new_population, child, generation,
                   best_score, generations_without_improvement, progress, pc,
                   reason, result>>

\* lines 72-78
StartLoop ==
    /\ pc = "init"
    /\ Len(population) >= population_size
    /\ generation' = 0
    /\ best_score' = population[1].score
    /\ generations_without_improvement' = 0
    /\ pc' = "while"
    /\ UNCHANGED <<js_drivers, js_vehicles, js_orders, error, drivers, vehicles, orders,
                   population, new_population, child,
                   progress, reason, result>>

\* line 81: Date::now() - start_time has reached max_duration
TimeBudgetExit ==
    /\ pc = "while"
    /\ reason' = "time-budget"
    /\ pc' = "return"
    /\ UNCHANGED <<js_drivers, js_vehicles, js_orders, error, drivers, vehicles, orders,
                   population, new_population, child,
                   generation, best_score, generations_without_improvement,
                   progress, result>>

\* line 81: generation < generations is false
GenerationCapExit ==
    /\ pc = "while"
    /\ ~(generation < generations)
    /\ reason' = "generation-cap"
    /\ pc' = "return"
    /\ UNCHANGED <<js_drivers, js_vehicles, js_orders, error, drivers, vehicles, orders,
                   population, new_population, child,
                   generation, best_score, generations_without_improvement,
                   progress, result>>

\* variant: the generation counter is reported as it is
GenerationMessageZeroBased(g, score) ==
    [kind |-> "generation", generation |-> g - 1, score |-> score]

\* lines 87-91: "Generation {n}: Best Score {score}"
GenerationMessage(g, score) == [kind |-> "generation", generation |-> g, score |-> score]
TerminationMessage == [kind |-> "termination", generation |-> 0, score |-> f64_zero]

\* variant: an equal score counts as an improvement
improved_or_equal(current_best_score, best) == ~f64_lt(current_best_score, best)

\* line 95
improved_score(current_best_score, best) == f64_lt(best, current_best_score)

\* lines 82-114: sort, report, stagnation bookkeeping, elitism
Evaluate ==
    /\ pc = "while"
    /\ generation < generations
    /\ LET sorted == sort_by_score(population)
           current_best_score == sorted[1].score
           improved == improved_score(current_best_score, best_score)
           stagnation == IF improved THEN 0 ELSE generations_without_improvement + 1
           sent == Append(progress, GenerationMessage(generation + 1, current_best_score))
       IN  /\ population' = sorted
           /\ best_score' = IF improved THEN current_best_score ELSE best_score
           /\ generations_without_improvement' = stagnation
           /\ IF stagnation >= max_generations_without_improvement
              THEN /\ progress' = Append(sent, TerminationMessage)
                   /\ reason' = "stagnation"
                   /\ pc' = "return"
                   /\ UNCHANGED new_population
              ELSE /\ progress' = sent
                   /\ new_population' = SubSeq(sorted, 1, elite_count)
                   /\ pc' = "refill"
                   /\ UNCHANGED reason
    /\ UNCHANGED <<js_drivers, js_vehicles, js_orders, error, drivers, vehicles, orders,
                   child, generation, result>>

\* variant: the refill loop runs once more
refill_needed_inclusive(new_pop) == Len(new_pop) <= population_size

\* variant: the child is dropped
push_lost(new_pop, c) == new_pop

\* variant: the last candidate of the sorted population is returned
last_assignments(pop) == pop[Len(pop)].assignments

\* line 155
best_assignments(pop) == pop[1].assignments

\* line 117: the condition of the refill loop
refill_needed(new_pop) == Len(new_pop) < population_size

\* line 146
push(new_pop, c) == Append(new_pop, c)

\* lines 117-129 and mod.rs 355-379: selection and the inheritance loop
Crossover ==
    /\ pc = "refill"
    /\ refill_needed(new_population)
    /\ \E parent1 \in select_parent(population), parent2 \in select_parent(population),
          coins \in [1..Len(orders) -> BOOLEAN] :
          child' = crossover_inherit(parent1, parent2, coins, order_priority_map)
    /\ pc' = "crossover_repair"
    /\ UNCHANGED <<js_drivers, js_vehicles, js_orders, error, drivers, vehicles, orders,
                   population, new_population, generation,
                   best_score, generations_without_improvement, progress, reason,
                   result>>

\* mod.rs 381-416
CrossoverRepair ==
    /\ pc = "crossover_repair"
    /\ child' \in crossover_repair(child, order_priority_map)
    /\ pc' = "mutation"
    /\ UNCHANGED <<js_drivers, js_vehicles, js_orders, error, drivers, vehicles, orders,
                   population, new_population, generation,
                   best_score, generations_without_improvement, progress, reason,
                   result>>

\* lines 144-146
PushChild(c) ==
    /\ new_population' = push(new_population, WithScore(c, order_priority_map))
    /\ child' = SolverState_new
    /\ pc' = "refill"

\* line 132: the draw is not below mutation_rate
SkipMutation ==
    /\ pc = "mutation"
    /\ PushChild(child)
    /\ UNCHANGED <<js_drivers, js_vehicles, js_orders, error, drivers, vehicles, orders,
                   population, generation, best_score,
                   generations_without_improvement, progress, reason, result>>

\* line 132 and mod.rs 428-442: the removal loop of mutate
MutateRelease ==
    /\ pc = "mutation"
    /\ \E remove_count \in 1..MaxRemoveCount :
          child' \in mutate_release({child}, remove_count)
    /\ pc' = "mutate_repair"
    /\ UNCHANGED <<js_drivers, js_vehicles, js_orders, error, drivers, vehicles, orders,
                   population, new_population, generation,
                   best_score, generations_without_improvement, progress, reason,
                   result>>

\* mod.rs 444-478, then lines 144-146
MutateRepair ==
    /\ pc = "mutate_repair"
    /\ \E c \in mutate_repair(child, order_priority_map) : PushChild(c)
    /\ UNCHANGED <<js_drivers, js_vehicles, js_orders, error, drivers, vehicles, orders,
                   population, generation, best_score,
                   generations_without_improvement, progress, reason, result>>

\* lines 117, 149-150
NextGeneration ==
    /\ pc = "refill"
    /\ ~refill_needed(new_population)
    /\ population' = new_population
    /\ new_population' = <<>>
    /\ generation' = generation + 1
    /\ pc' = "while"
    /\ UNCHANGED <<js_drivers, js_vehicles, js_orders, error, drivers, vehicles, orders,
                   child, best_score,
                   generations_without_improvement, progress, reason, result>>

\* lines 153-163
Return ==
    /\ pc = "return"
    /\ population' = sort_by_score(population)
    /\ result' = best_assignments(population')
    /\ pc' = "done"
    /\ UNCHANGED <<js_drivers, js_vehicles, js_orders, error, drivers, vehicles, orders,
                   new_population, child, generation,
                   best_score, generations_without_improvement, progress, reason>>

Next ==
    \/ Decode
    \/ InitializePopulation
    \/ StartLoop
    \/ TimeBudgetExit
    \/ GenerationCapExit
    \/ Evaluate
    \/ Crossover
    \/ CrossoverRepair
    \/ SkipMutation
    \/ MutateRelease
    \/ MutateRepair
    \/ NextGeneration
    \/ Return

Spec == Init /\ [][Next]_vars

\* the program is sequential and every step it can take is taken
FairSpec == Spec /\ WF_vars(Next)

\* the same program, also run on the inputs whose score depends on the
\* order of summation and whose drivers share an identifier
CrossoverSpec == CrossoverInit /\ [][Next]_vars

-----------------------------------------------------------------------------
(* Properties                                                               *)

Range(seq) == {seq[i] : i \in 1..Len(seq)}

\* every candidate the program holds: both populations and the child in the making
Candidates == Range(population) \cup Range(new_population) \cup {child}

Schedules(c) ==
    {c.driver_schedules[d] : d \in DriverIds} \cup {c.vehicle_schedules[v] : v \in VehicleIds}

Later(x, y) == IF x >= y THEN x ELSE y
Earlier(x, y) == IF x <= y THEN x ELSE y

f64_le(x, y) == ~f64_lt(y, x)

MaxOf(S) == CHOOSE m \in S : \A x \in S : f64_le(x, m)

MaxScore(pop) == MaxOf({c.score : c \in Range(pop)})

DistinctOrderIds == \A i, j \in 1..Len(orders) : orders[i].id = orders[j].id => i = j

\* C1: in every candidate, every two intervals committed to the same driver
\* or vehicle do not overlap as half-open windows and lie at least the
\* mandatory break apart (later start minus earlier end).
C1_NoOverlap ==
    \A c \in Candidates : \A schedule \in Schedules(c) :
        \A i, j \in 1..Len(schedule) :
            i < j =>
                /\ ~(schedule[i][1] < schedule[j][2] /\ schedule[j][1] < schedule[i][2])
                /\ Later(schedule[i][1], schedule[j][1])
                     - Earlier(schedule[i][2], schedule[j][2]) >= mandatory_break

\* a candidate of a later generation carries two intervals on one resource
C1_Witness ==
    /\ generation >= 1
    /\ pc = "while"
    /\ \E c \in Range(population) : \E schedule \in Schedules(c) : Len(schedule) >= 2

\* C2: the cached score of every candidate equals the score recomputed from
\* its assignment list, at every point of crossover and of mutate.
C2_ScoreConsistent ==
    \A c \in Candidates : c.score = calculate_score(c, order_priority_map)

\* C3: with pairwise distinct order identifiers, no candidate lists an order
\* identifier twice.
C3_OrderOnce ==
    DistinctOrderIds =>
        \A c \in Candidates : \A i, j \in 1..Len(c.assignments) :
            c.assignments[i].order_id = c.assignments[j].order_id => i = j

\* a mutated child with two assignments, built from distinct identifiers
C3_Witness ==
    /\ DistinctOrderIds
    /\ generation >= 1
    /\ \E c \in Range(population) : Len(c.assignments) >= 2

OrdersOf(a) == {o \in Range(orders) : o.id = a.order_id}
VehiclesOf(a) == {v \in Range(vehicles) : v.id = a.vehicle_id}
DriversOf(a) == {d \in Range(drivers) : d.id = a.driver_id}

AllAssignments == UNION {Range(c.assignments) : c \in Candidates} \cup Range(result)

\* C4: no assignment of any candidate or of the result exceeds the vehicle's
\* weight limit, or carries a volume the vehicle cannot take.
C4_Capacity ==
    \A a \in AllAssignments : \A o \in OrdersOf(a) : \A v \in VehiclesOf(a) :
        /\ o.weight <= v.max_weight
        /\ o.volume # None => (v.max_volume # None /\ o.volume[1] <= v.max_volume[1])

\* the result places the heavy order and the order with a volume
C4_Witness ==
    /\ pc = "done"
    /\ orders = CapacityInput.orders
    /\ \E a \in Range(result) : a.order_id = "heavy" /\ a.vehicle_id = "v1"
    /\ \E a \in Range(result) : a.order_id = "frozen" /\ a.vehicle_id = "v1"
    /\ \A a \in Range(result) : a.order_id # "bulky"

\* C5: no assignment pairs an order that requires tags with a vehicle whose
\* tags do not include all of them.
C5_Tags ==
    \A a \in AllAssignments : \A o \in OrdersOf(a) : \A v \in VehiclesOf(a) :
        o.tags # None => (v.tags # None /\ o.tags[1] \subseteq v.tags[1])

\* the only vehicle has no tags: the tagged order is left out, the other is placed
C5_Witness ==
    /\ pc = "done"
    /\ orders = TagInput.orders
    /\ generation >= 1
    /\ \E a \in Range(result) : a.order_id = "plain"
    /\ \A a \in Range(result) : a.order_id # "frozen"

\* C6: no assignment gives a driver an order that starts inside one of the
\* driver's breaks; so the break 10:00-10:30 keeps the order starting 10:20
\* off driver d1, whatever else d1 carries.
C6_Break ==
    /\ \A a \in AllAssignments : \A o \in OrdersOf(a) : \A d \in DriversOf(a) :
          d.breaks # None =>
              \A b \in Range(d.breaks[1]) : ~(b.from <= o.start_time /\ o.start_time < b.to)
    /\ orders = BreakInput.orders =>
          \A c \in Candidates :
              ~(/\ \E a \in Range(c.assignments) : a.order_id = "o1" /\ a.driver_id = "d1"
                /\ \E a \in Range(c.assignments) : a.order_id = "o2" /\ a.driver_id = "d1")

\* the driver with the break carries the early order, the other driver the late one
C6_Witness ==
    /\ orders = BreakInput.orders
    /\ generation >= 1
    /\ \E c \in Range(population) :
          /\ \E a \in Range(c.assignments) : a.order_id = "o1" /\ a.driver_id = "d1"
          /\ \E a \in Range(c.assignments) : a.order_id = "o2" /\ a.driver_id = "d2"

GenerationsRun == Cardinality({i \in 1..Len(progress) : progress[i].kind = "generation"})

\* C7: every run ends; it has then run at most `generations` generations and
\* stopped for the generation cap, the time budget or stagnation.
C7_Halts ==
    /\ <>(pc = "done" \/ pc = "failed")
    /\ [](GenerationsRun <= generations)
    /\ [](pc = "done" =>
            \/ reason = "generation-cap" /\ generation = generations
            \/ reason = "time-budget"
            \/ reason = "stagnation"
                 /\ generations_without_improvement = max_generations_without_improvement)

\* a run that used every generation
C7_Witness ==
    /\ pc = "done"
    /\ reason = "generation-cap"
    /\ GenerationsRun = generations

\* C8: when a generation is replaced by the next, the best score of the new
\* population is at least the best score of the old one.
C8_ElitismMonotone ==
    [][(pc = "refill" /\ pc' = "while")
            => f64_le(MaxScore(population), MaxScore(population'))]_vars

\* a second generation whose best is strictly better than a candidate it replaced
C8_Witness ==
    /\ pc = "while"
    /\ generation >= 1
    /\ \E i \in 1..Len(progress) : f64_lt(progress[i].score, MaxScore(population))

\* C9: the result is the assignment list of a best-scoring candidate of the
\* final population, and no generation ever reported a better score.
C9_ReturnsBest ==
    pc = "done" =>
        /\ \E c \in Range(population) :
              c.assignments = result /\ c.score = MaxScore(population)
        /\ \A i \in 1..Len(progress) :
              progress[i].kind = "generation"
                  => f64_le(progress[i].score, MaxScore(population))

\* a run that ended on the time budget with candidates of different scores
C9_Witness ==
    /\ pc = "done"
    /\ reason = "time-budget"
    /\ generation >= 1
    /\ \E c \in Range(population) : f64_lt(c.score, MaxScore(population))

\* C10: the population has population_size candidates at the start of every
\* generation, while it is refilled, and at termination.
C10_PopulationSize ==
    pc \notin {"decode", "failed", "init"} => Len(population) = population_size

\* a refilled population at the start of a later generation
C10_Witness ==
    /\ pc = "while"
    /\ generation >= 1
    /\ Len(population) = population_size

CompleteCandidates == Range(population) \cup Range(new_population)

Inverted(o) == o.end_time < o.start_time

\* C11: an order whose window is inverted or whose weight is negative is in
\* no assignment list, and without drivers no order is assigned.
C11_MalformedUnassigned ==
    /\ \A a \in AllAssignments : \A o \in OrdersOf(a) : ~Inverted(o) /\ o.weight >= 0
    /\ Len(drivers) = 0 => AllAssignments = {}

\* one driver without breaks, one vehicle of capacity 100 without tags, two
\* orders of weight 10 with default priority and nothing else set
TwoOrderScenario ==
    /\ Len(drivers) = 1 /\ drivers[1].breaks = None
    /\ Len(vehicles) = 1 /\ vehicles[1].max_weight = 100 /\ vehicles[1].tags = None
    /\ Len(orders) = 2 /\ orders[1].id # orders[2].id
    /\ \A i \in 1..2 :
          /\ orders[i].weight = 10 /\ orders[i].priority = None
          /\ orders[i].tags = None /\ orders[i].volume = None

WindowsDisjoint ==
    ~(orders[1].start_time < orders[2].end_time /\ orders[2].start_time < orders[1].end_time)

WindowsWellFormed == \A i \in 1..Len(orders) : orders[i].start_time < orders[i].end_time

WindowsBreakApart ==
    Later(orders[1].start_time, orders[2].start_time)
      - Earlier(orders[1].end_time, orders[2].end_time) >= mandatory_break

AssignedIn(assignments) == {assignments[i].order_id : i \in 1..Len(assignments)}

BothReturned ==
    /\ Len(result) = 2
    /\ AssignedIn(result) = {orders[1].id, orders[2].id}
    /\ MaxScore(population) = f64_from_u32(2)

\* C12 as stated: two orders whose windows do not overlap are both in the
\* result and the final best score is 2.0.
C12_ScenarioA_Stated ==
    (pc = "done" /\ TwoOrderScenario /\ WindowsDisjoint) => BothReturned

\* C12: two orders with well-formed windows that do not overlap and lie at
\* least the mandatory break apart are both in the result, and the final
\* best score is 2.0.
C12_ScenarioA ==
    (pc = "done" /\ TwoOrderScenario /\ WindowsWellFormed /\ WindowsDisjoint
       /\ WindowsBreakApart) => BothReturned

\* a run on the orders an hour apart that went through mutation and ended
C12_Witness ==
    /\ pc = "done"
    /\ orders = ScenarioAInput.orders
    /\ generation >= 1
    /\ BothReturned

WindowsIdentical ==
    /\ orders[1].start_time = orders[2].start_time
    /\ orders[1].end_time = orders[2].end_time

OneReturned ==
    /\ Len(result) = 1
    /\ AssignedIn(result) \subseteq {orders[1].id, orders[2].id}
    /\ MaxScore(population) = f64_from_u32(1)

\* C13 as stated: of two orders with identical windows exactly one is in the
\* result and the final best score is 1.0.
C13_ScenarioB_Stated ==
    (pc = "done" /\ TwoOrderScenario /\ WindowsIdentical) => OneReturned

\* C13: of two orders with identical well-formed windows (start < end)
\* exactly one is in the result and the final best score is 1.0.
C13_ScenarioB ==
    (pc = "done" /\ TwoOrderScenario /\ WindowsIdentical /\ WindowsWellFormed)
        => OneReturned

\* a run on the two identical windows that went through a generation and ended
C13_Witness ==
    /\ pc = "done"
    /\ orders = ScenarioBInput.orders
    /\ generation >= 1
    /\ OneReturned

\* C14: when an input does not decode, the run fails with the error of the
\* first such input in the order drivers, vehicles, orders, and has built no
\* candidate and sent no progress message; a run that decodes everything
\* reports no error.
C14_DecodeFailure ==
    /\ pc = "failed" =>
          /\ error # None
          /\ error[1] = "drivers" <=> ~js_drivers.decodes
          /\ error[1] = "vehicles" <=> (js_drivers.decodes /\ ~js_vehicles.decodes)
          /\ error[1] = "orders" <=>
                (js_drivers.decodes /\ js_vehicles.decodes /\ ~js_orders.decodes)
          /\ population = <<>> /\ new_population = <<>> /\ child.assignments = <<>>
          /\ progress = <<>> /\ result = <<>>
    /\ (pc # "decode" /\ ~(js_drivers.decodes /\ js_vehicles.decodes /\ js_orders.decodes))
          => pc = "failed"

\* vehicles and orders both fail to decode: the vehicles are reported
C14_Witness ==
    /\ pc = "failed"
    /\ error = Some("vehicles")
    /\ ~js_orders.decodes

GenerationMessages == SelectSeq(progress, LAMBDA m : m.kind = "generation")

TerminationMessages == {i \in 1..Len(progress) : progress[i].kind = "termination"}

\* the loop body has evaluated the population and has not yet replaced it
InGeneration ==
    \/ pc \in {"refill", "crossover_repair", "mutation", "mutate_repair"}
    \/ pc \in {"return", "done"} /\ reason = "stagnation"

\* C15: the sink has received one message per generation evaluated so far,
\* numbered 1, 2, 3, ... in order, the latest carrying the best score of the
\* population just evaluated; and one more message, the last, exactly when
\* the loop ended for stagnation.
C15_Progress ==
    /\ \A i \in 1..Len(GenerationMessages) : GenerationMessages[i].generation = i
    /\ Len(GenerationMessages) = generation + (IF InGeneration THEN 1 ELSE 0)
    /\ InGeneration =>
          GenerationMessages[Len(GenerationMessages)].score = MaxScore(population)
    /\ TerminationMessages = IF reason = "stagnation" THEN {Len(progress)} ELSE {}

\* a run of two generations that ended for stagnation
C15_Witness ==
    /\ pc = "done"
    /\ reason = "stagnation"
    /\ Len(GenerationMessages) >= 2
    /\ Len(progress) = Len(GenerationMessages) + 1

OrderIds == {orders[i].id : i \in 1..Len(orders)}

\* C17: every assignment names a driver, a vehicle and an order of the input,
\* so no lookup by identifier misses.
C17_KnownEntities ==
    \A a \in AllAssignments :
        a.driver_id \in DriverIds /\ a.vehicle_id \in VehicleIds /\ a.order_id \in OrderIds

\* mutate has looked up and released an assignment of a child that keeps another
C17_Witness ==
    /\ pc = "mutate_repair"
    /\ generation >= 1
    /\ Len(child.assignments) = 1
    /\ Len(orders) >= 2

WindowOf(a) ==
    LET o == CHOOSE o \in OrdersOf(a) : TRUE IN <<o.start_time, o.end_time>>

Occurrences(seq, x) == Cardinality({i \in 1..Len(seq) : seq[i] = x})

HeldWindows(c, field, id) ==
    {k \in 1..Len(c.assignments) : c.assignments[k][field] = id}

ScheduleMatches(c, schedule, field, id) ==
    \A w \in Range(schedule) \cup {WindowOf(c.assignments[k]) : k \in HeldWindows(c, field, id)} :
        Occurrences(schedule, w)
          = Cardinality({k \in HeldWindows(c, field, id) : WindowOf(c.assignments[k]) = w})

\* C18: with distinct order identifiers, the interval list of every driver
\* and vehicle of every candidate holds exactly the windows of the orders
\* assigned to it, each as often as it is assigned.
C18_SchedulesMatchAssignments ==
    DistinctOrderIds =>
        \A c \in Candidates :
            /\ \A d \in DriverIds :
                  ScheduleMatches(c, c.driver_schedules[d], "driver_id", d)
            /\ \A v \in VehicleIds :
                  ScheduleMatches(c, c.vehicle_schedules[v], "vehicle_id", v)

ReportedScores == {progress[i].score : i \in {k \in 1..Len(progress) : progress[k].kind = "generation"}}

\* C19: in each generation the stagnation counter becomes 0 when that
\* generation's best score exceeds the best score recorded before, and grows
\* by 1 otherwise; the recorded best is then the highest score of all
\* generations so far and of the current population; and the loop has ended
\* for stagnation exactly when the counter is at its cap.
C19_Stagnation ==
    /\ []((reason = "stagnation")
            <=> (generations_without_improvement = max_generations_without_improvement))
    /\ [][progress' # progress =>
            /\ generations_without_improvement' =
                  IF f64_lt(best_score, MaxScore(population))
                  THEN 0 ELSE generations_without_improvement + 1
            /\ best_score' = MaxOf(ReportedScores')
            /\ best_score' = MaxOf({best_score, MaxScore(population)})
            /\ \A c \in Range(population') : f64_le(c.score, best_score')
            /\ (reason' = "stagnation") => pc' = "return"]_vars

\* the second generation improved on the first: the counter is back at 0
C19_Witness ==
    /\ pc = "refill"
    /\ generation = 1
    /\ generations_without_improvement = 0
    /\ Len(progress) = 2
    /\ f64_lt(progress[1].score, progress[2].score)

\* C20: in every finished candidate, no order missing from the assignment
\* list can be placed on any driver and vehicle against the candidate's
\* committed intervals.
C20_Maximal ==
    \A c \in CompleteCandidates : \A i \in 1..Len(orders) :
        ~IsAssigned(c, orders[i]) =>
            \A d \in 1..Len(drivers) : \A v \in 1..Len(vehicles) :
                ~can_assign(orders[i], drivers[d], vehicles[v],
                            c.driver_schedules[drivers[d].id],
                            c.vehicle_schedules[vehicles[v].id], mandatory_break)

\* a mutated generation with a candidate that leaves an order out although
\* drivers and vehicles exist
C20_Witness ==
    /\ pc = "while"
    /\ generation >= 1
    /\ orders = ChainInput.orders
    /\ \E c \in Range(population) : Len(c.assignments) = 1
    /\ \E c \in Range(population) : Len(c.assignments) = 2

\* the position of an order identifier in the input
InputPosition(id) == CHOOSE i \in 1..Len(orders) : orders[i].id = id

InInputOrder(assignments) ==
    \A i, j \in 1..Len(assignments) :
        i < j => InputPosition(assignments[i].order_id)
                    < InputPosition(assignments[j].order_id)

\* the crossover step is about to draw its two parents
SelectingParents == pc = "refill" /\ refill_needed(new_population)

\* C21 as stated: when all order windows have start < end and the same
\* candidate P is drawn as both parents, every child of crossover(P, P), for
\* every outcome of the coin flips, has P's set of assignments and P's score:
\* the inheritance pass replays all of P and the repair pass adds nothing.
C21_SelfCrossover_Stated ==
    (SelectingParents /\ WindowsWellFormed) =>
        \A P \in select_parent(population) : \A coins \in [1..Len(orders) -> BOOLEAN] :
            LET inherited == crossover_inherit(P, P, coins, order_priority_map)
            IN  \A c \in crossover_repair(inherited, order_priority_map) :
                    /\ Range(inherited.assignments) = Range(P.assignments)
                    /\ c.assignments = inherited.assignments
                    /\ c.score = P.score

DistinctIds(xs) == \A i, j \in 1..Len(xs) : xs[i].id = xs[j].id => i = j

\* C21: when the identifiers of the orders, of the drivers and of the
\* vehicles are pairwise distinct, all order windows have start < end and the
\* same candidate P is drawn as both parents, every child of crossover(P, P),
\* for every outcome of the coin flips, holds exactly P's assignments, listed
\* in input order: the inheritance pass replays all of P and the repair pass
\* adds nothing.  The child's score equals P's when P lists its assignments
\* in input order or has at most two of them.
C21_SelfCrossover ==
    (SelectingParents /\ WindowsWellFormed
        /\ DistinctIds(orders) /\ DistinctIds(drivers) /\ DistinctIds(vehicles)) =>
        \A P \in select_parent(population) : \A coins \in [1..Len(orders) -> BOOLEAN] :
            LET inherited == crossover_inherit(P, P, coins, order_priority_map)
            IN  \A c \in crossover_repair(inherited, order_priority_map) :
                    /\ Range(inherited.assignments) = Range(P.assignments)
                    /\ Len(inherited.assignments) = Len(P.assignments)
                    /\ c.assignments = inherited.assignments
                    /\ InInputOrder(c.assignments)
                    /\ (P.assignments = c.assignments \/ Len(P.assignments) <= 2)
                          => c.score = P.score

\* the crossover step drew one candidate of three assignments as both
\* parents, and the child lists them in another order than the parent
C21_Witness ==
    /\ pc = "crossover_repair"
    /\ WindowsWellFormed
    /\ DistinctIds(orders) /\ DistinctIds(drivers) /\ DistinctIds(vehicles)
    /\ \E P \in Range(population) : \E coins \in [1..Len(orders) -> BOOLEAN] :
          /\ child = crossover_inherit(P, P, coins, order_priority_map)
          /\ Len(P.assignments) = 3
          /\ child.assignments # P.assignments
          /\ calculate_score(child, order_priority_map) # P.score

====
